---- MODULE Spec2Model ----
(***************************************************************************)
(* export_tarball.py: the filtered, reproducible archive exporter.         *)
(*                                                                         *)
(* Python strings that the code inspects (paths, base names, the contents  *)
(* of the timestamp file) are sequences of one-character strings, so that  *)
(* startswith / endswith / in / os.path.split / sorted are computed on the *)
(* characters, as the code computes them.                                  *)
(***************************************************************************)
EXTENDS Integers, Sequences, FiniteSets, TLC

(* ------------------------------ bounds --------------------------------- *)

\* number of leaf entries placed in the source tree (besides the timestamp file)
MaxEntries == 2

\* number of consecutive invocations of main over the same tree and options
MaxRuns == 2

(* --------------------------- str operations ---------------------------- *)

\* str.startswith
StartsWith(s, p) == Len(p) <= Len(s) /\ SubSeq(s, 1, Len(p)) = p

\* str.endswith
EndsWith(s, p) == Len(p) <= Len(s) /\ SubSeq(s, Len(s) - Len(p) + 1, Len(s)) = p

\* the `in` operator on two strings
Contains(s, p) == \E i \in 1..(Len(s) - Len(p) + 1) : SubSeq(s, i, i + Len(p) - 1) = p

\* the characters of the names, in code point order
AsciiOrder == <<"-",".","/","0","1","2","3","4","5","6","7","8","9","A","B","C","D","E","F","G","H","I","J","K","L","M","N","O","P","Q","R","S","T","U","V","W","X","Y","Z","_","a","b","c","d","e","f","g","h","i","j","k","l","m","n","o","p","q","r","s","t","u","v","w","x","y","z">>

\* ord(c)
Ord(c) == CHOOSE i \in 1..Len(AsciiOrder) : AsciiOrder[i] = c

\* a < b on strings: code point order of the first difference, else the shorter one
StrLess(a, b) ==
  LET n == IF Len(a) < Len(b) THEN Len(a) ELSE Len(b)
      d == {i \in 1..n : a[i] # b[i]}
  IN IF d = {} THEN Len(a) < Len(b)
     ELSE LET i == CHOOSE x \in d : \A y \in d : x <= y
          IN Ord(a[i]) < Ord(b[i])

\* sorted(l) on a list of distinct strings
RECURSIVE sorted(_)
sorted(l) ==
  IF l = <<>> THEN <<>>
  ELSE LET rest == sorted(Tail(l))
           k == Cardinality({i \in 1..Len(rest) : StrLess(rest[i], Head(l))})
       IN SubSeq(rest, 1, k) \o <<Head(l)>> \o SubSeq(rest, k + 1, Len(rest))

(* ------------------------------ os.path -------------------------------- *)

\* index of the last '/' of s, 0 when there is none
LastSlash(s) ==
  IF \E i \in 1..Len(s) : s[i] = "/"
  THEN CHOOSE i \in 1..Len(s) : s[i] = "/" /\ \A j \in (i + 1)..Len(s) : s[j] # "/"
  ELSE 0

\* os.path.split(name)[1], os.path.basename(name)
SplitTail(s) == SubSeq(s, LastSlash(s) + 1, Len(s))

\* os.path.split(name)[0]: the head keeps its '/' only when it is the root
SplitHead(s) ==
  IF LastSlash(s) <= 1 THEN SubSeq(s, 1, LastSlash(s))
  ELSE SubSeq(s, 1, LastSlash(s) - 1)

\* os.path.join(a, b) for a relative b
join(a, b) ==
  IF a = <<>> \/ EndsWith(a, <<"/">>) THEN a \o b ELSE a \o <<"/">> \o b

\* os.path.relpath(name, start) for a normalised name at or below start
relpath(name, start) ==
  IF name = start THEN <<".">>
  ELSE SubSeq(name, Len(start) + 2, Len(name))

(* ------------------------- the module's tables ------------------------- *)

nonessential_dirs == {
    <<"b","u","i","l","d","/","l","i","n","u","x","/","d","e","b","i","a","n","_","b","u","l","l","s","e","y","e","_","a","m","d","6","4","-","s","y","s","r","o","o","t">>,
    <<"b","u","i","l","d","/","l","i","n","u","x","/","d","e","b","i","a","n","_","b","u","l","l","s","e","y","e","_","i","3","8","6","-","s","y","s","r","o","o","t">>,
    <<"t","h","i","r","d","_","p","a","r","t","y","/","b","l","i","n","k","/","t","o","o","l","s">>,
    <<"t","h","i","r","d","_","p","a","r","t","y","/","b","l","i","n","k","/","w","e","b","_","t","e","s","t","s">>,
    <<"t","h","i","r","d","_","p","a","r","t","y","/","h","u","n","s","p","e","l","l","_","d","i","c","t","i","o","n","a","r","i","e","s">>,
    <<"t","h","i","r","d","_","p","a","r","t","y","/","h","u","n","s","p","e","l","l","/","t","e","s","t","s">>,
    <<"t","h","i","r","d","_","p","a","r","t","y","/","i","n","s","t","r","u","m","e","n","t","e","d","_","l","i","b","s">>,
    <<"t","h","i","r","d","_","p","a","r","t","y","/","j","d","k","/","c","u","r","r","e","n","t">>,
    <<"t","h","i","r","d","_","p","a","r","t","y","/","j","d","k","/","e","x","t","r","a","s">>,
    <<"t","h","i","r","d","_","p","a","r","t","y","/","l","i","b","l","o","u","i","s","/","s","r","c","/","t","e","s","t","s","/","b","r","a","i","l","l","e","-","s","p","e","c","s">>,
    <<"t","h","i","r","d","_","p","a","r","t","y","/","l","l","v","m","-","b","u","i","l","d">>,
    <<"t","h","i","r","d","_","p","a","r","t","y","/","x","d","g","-","u","t","i","l","s","/","t","e","s","t","s">>,
    <<"v","8","/","t","e","s","t">> }

ESSENTIAL_FILES == {
    <<"c","h","r","o","m","e","/","t","e","s","t","/","d","a","t","a","/","w","e","b","u","i","/","i","1","8","n","_","p","r","o","c","e","s","s","_","c","s","s","_","t","e","s","t",".","h","t","m","l">>,
    <<"c","h","r","o","m","e","/","t","e","s","t","/","d","a","t","a","/","w","e","b","u","i","/","m","o","j","o","/","f","o","o","b","a","r",".","m","o","j","o","m">>,
    <<"c","h","r","o","m","e","/","t","e","s","t","/","d","a","t","a","/","w","e","b","u","i","/","w","e","b","_","u","i","_","t","e","s","t",".","m","o","j","o","m">>,
    <<"v","8","/","t","e","s","t","/","t","o","r","q","u","e","/","t","e","s","t","-","t","o","r","q","u","e",".","t","q">> }

ESSENTIAL_GIT_DIRS == {
    <<"t","h","i","r","d","_","p","a","r","t","y","/","r","u","s","t","-","s","r","c","/">> }

TEST_DIRS == <<
    <<"c","h","r","o","m","e","/","t","e","s","t","/","d","a","t","a">>,
    <<"c","o","n","t","e","n","t","/","t","e","s","t","/","d","a","t","a">>,
    <<"c","o","u","r","g","e","t","t","e","/","t","e","s","t","d","a","t","a">>,
    <<"e","x","t","e","n","s","i","o","n","s","/","t","e","s","t","/","d","a","t","a">>,
    <<"m","e","d","i","a","/","t","e","s","t","/","d","a","t","a">>,
    <<"n","a","t","i","v","e","_","c","l","i","e","n","t","/","s","r","c","/","t","r","u","s","t","e","d","/","s","e","r","v","i","c","e","_","r","u","n","t","i","m","e","/","t","e","s","t","d","a","t","a">>,
    <<"t","h","i","r","d","_","p","a","r","t","y","/","b","r","e","a","k","p","a","d","/","b","r","e","a","k","p","a","d","/","s","r","c","/","p","r","o","c","e","s","s","o","r","/","t","e","s","t","d","a","t","a">>,
    <<"t","h","i","r","d","_","p","a","r","t","y","/","c","a","t","a","p","u","l","t","/","t","r","a","c","i","n","g","/","t","e","s","t","_","d","a","t","a">> >>

\* stat.S_IWUSR
S_IWUSR == 128

\* mode | bit, for a single permission bit
BitOr(mode, bit) == IF (mode \div bit) % 2 = 1 THEN mode ELSE mode + bit

\* build/util/LASTCHANGE.committime
TimestampFile == <<"b","u","i","l","d","/","u","t","i","l","/","L","A","S","T","C","H","A","N","G","E",".","c","o","m","m","i","t","t","i","m","e">>

(* ----------------------- the world of the run -------------------------- *)

\* the checkout the tool is pointed at, and a directory that does not exist
SrcDir == <<"/","s">>
NoSrcDir == <<"/","n">>

\* the output file name stem given on the command line
Arg0 == <<"o","/","c">>

\* values of --basename: the option is left out, as in the usage example
BasenameOpts == {<<>>}

\* contents of the timestamp file: a decimal integer with its newline, or not one
TimestampContents == {<<"1","7","\n">>, <<"x">>}

\* what os.lstat reports for an entry besides its type and mode: it differs
\* between checkouts of the same tree
Stats == {
    [mtime |-> 5, uid |-> 0, gid |-> 0, uname |-> "root", gname |-> "root"],
    [mtime |-> 9, uid |-> 1000, gid |-> 100, uname |-> "dev", gname |-> "users"] }

\* exit statuses of the compressor once it has read its whole input
XzStatuses == {0, 2}

\* a leaf of the source tree: path relative to the source root, type, what a
\* symlink resolves to, permission bits
Leaf(path, kind, target, mode) ==
  [path |-> path, kind |-> kind, target |-> target, mode |-> mode]

CandidateLeaves == {
    Leaf(<<"v","8","/","t","e","s","t","/","a",".","g","y","p">>, "file", "", 292),
    Leaf(<<"v","8","/","t","e","s","t","/","a",".","g","y","p">>, "symlink", "none", 511),
    Leaf(<<"v","8","/","t","e","s","t","/","f",".","c","c">>, "file", "", 365),
    Leaf(<<"v","8","/","t","e","s","t","/","l">>, "symlink", "file", 511),
    Leaf(<<"v","8","/","t","e","s","t","/","o","u","t">>, "dir", "", 493),
    Leaf(<<"v","8","/","t","e","s","t","/","C","h","a","n","g","e","L","o","g",".","g","n">>, "file", "", 420),
    Leaf(<<"t","h","i","r","d","_","p","a","r","t","y","/","r","u","s","t","-","s","r","c","/",".","g","i","t","/","H","E","A","D">>, "file", "", 420),
    Leaf(<<"x","/",".","g","i","t","/","H","E","A","D">>, "file", "", 420),
    Leaf(<<"n","o","d","e","_","m","o","d","u","l","e","s","/","o","u","t">>, "dir", "", 493),
    Leaf(<<"c","h","r","o","m","e","/","t","e","s","t","/","d","a","t","a","/","w","e","b","u","i","/","w","e","b","_","u","i","_","t","e","s","t",".","m","o","j","o","m">>, "file", "", 420),
    Leaf(<<"c","o","n","t","e","n","t","/","t","e","s","t","/","d","a","t","a","/","c",".","p","y","d","e","p","s">>, "file", "", 365) }

\* the directories above a name, up to and including the source root
Ancestors(name) ==
  {SubSeq(name, 1, i - 1) : i \in {j \in (Len(SrcDir) + 1)..Len(name) : name[j] = "/"}}

\* the file system holding the leaves and, when it has contents, the timestamp file
MakeFs(leaves, ts) ==
  LET tsname == join(SrcDir, TimestampFile)
      files == {join(SrcDir, l.path) : l \in leaves}
      names == {SrcDir} \cup files \cup UNION {Ancestors(n) : n \in files}
               \cup (IF ts = <<>> THEN {} ELSE {tsname} \cup Ancestors(tsname))
      entry(n) ==
        IF n \in files
        THEN LET l == CHOOSE l \in leaves : join(SrcDir, l.path) = n
             IN [kind |-> l.kind, target |-> l.target, mode |-> l.mode, content |-> <<>>]
        ELSE IF ts # <<>> /\ n = tsname
        THEN [kind |-> "file", target |-> "", mode |-> 420, content |-> ts]
        ELSE [kind |-> "dir", target |-> "", mode |-> 493, content |-> <<>>]
  IN [n \in names |-> entry(n)]

\* leaves that can share one tree: no path twice, none below another
Compatible(leaves) ==
  \A a, b \in leaves :
    a # b => a.path # b.path /\ ~StartsWith(a.path, b.path \o <<"/">>)

VARIABLES
  fs,         \* the file system: name -> [kind, target, mode, content]
  run,        \* which invocation of main this is
  prev,       \* what the previous invocation emitted and reported
  pc,         \* main's position
  options,    \* the parsed command line, <<>> before it is parsed
  mtime,      \* the archive's __mtime, -1 before set_mtime
  tsReads,    \* how often this invocation read the timestamp file
  stack,      \* pending calls of MyTarFile.add, innermost first
  dirIdx,     \* position of the loop over TEST_DIRS
  records,    \* the members written to the archive stream, in order
  report,     \* the calls of __report_added / __report_skipped, in order
  stdout,     \* the lines printed
  tarball,    \* the output file: "absent", "open", "closed"
  xz,         \* the compressor: "none", "running", "dead"
  archive,    \* the MyTarFile: "none", "open", "closed"
  pipe,       \* xz.stdin: "none", "open", "closed"
  xzStatus,   \* what xz.wait() returned, -1 while not collected
  exc,        \* the exception being propagated, "none" when there is none
  exitCode    \* the process's exit status, -1 while running

vars == <<fs, run, prev, pc, options, mtime, tsReads, stack, dirIdx, records,
          report, stdout, tarball, xz, archive, pipe, xzStatus, exc, exitCode>>

(* --------------------------- os.path on fs ----------------------------- *)

\* os.path.islink
islink(name) == name \in DOMAIN fs /\ fs[name].kind = "symlink"

\* os.path.exists: follows symlinks
exists(name) ==
  name \in DOMAIN fs /\ (fs[name].kind = "symlink" => fs[name].target # "none")

\* os.path.isfile: follows symlinks
isfile(name) ==
  name \in DOMAIN fs /\ (\/ fs[name].kind = "file"
                         \/ fs[name].kind = "symlink" /\ fs[name].target = "file")

\* os.path.isdir: follows symlinks
isdir(name) ==
  name \in DOMAIN fs /\ (\/ fs[name].kind = "dir"
                         \/ fs[name].kind = "symlink" /\ fs[name].target = "dir")

\* os.listdir(name), as a set: the order it comes in is not specified
listdir(name) == {SplitTail(n) : n \in {m \in DOMAIN fs : m # name /\ SplitHead(m) = name}}

\* the orders os.listdir may return the names of a set in
Listings(names) ==
  {l \in [1..Cardinality(names) -> names] : \A i, j \in DOMAIN l : l[i] = l[j] => i = j}

Init ==
  /\ \E leaves \in SUBSET CandidateLeaves, ts \in TimestampContents \cup {<<>>} :
       /\ Cardinality(leaves) <= MaxEntries
       /\ Compatible(leaves)
       /\ fs = MakeFs(leaves, ts)
  /\ run = 1
  /\ prev = [records |-> <<>>, report |-> <<>>]
  /\ pc = "main"
  /\ options = <<>>
  /\ mtime = -1
  /\ tsReads = 0
  /\ stack = <<>>
  /\ dirIdx = 1
  /\ records = <<>>
  /\ report = <<>>
  /\ stdout = <<>>
  /\ tarball = "absent"
  /\ xz = "none"
  /\ archive = "none"
  /\ pipe = "none"
  /\ xzStatus = -1
  /\ exc = "none"
  /\ exitCode = -1

(* ---------------------------- MyTarFile -------------------------------- *)

\* DanglingLink with the existence test made on the link itself, not its target
DanglingLinkLexists(name) == islink(name) /\ name \notin DOMAIN fs

\* add, line 87: a symlink whose target does not exist
DanglingLink(name) == islink(name) /\ ~exists(name)

\* add, line 93: byte-code caches
CacheMarker(file_name) ==
  file_name = <<"_","_","p","y","c","a","c","h","e","_","_">> \/ EndsWith(file_name, <<".","p","y","c">>)

\* add, lines 96-100: .svn and out, except below a node_modules path
SvnOrOut(file_name, file_path) ==
  /\ file_name \in {<<".","s","v","n">>, <<"o","u","t">>}
  /\ ~Contains(file_path, <<"n","o","d","e","_","m","o","d","u","l","e","s">>)

\* GitExcluded with the `not` of line 104 left out
GitExcludedInverted(file_name, rel_name) ==
  /\ file_name = <<".","g","i","t">>
  /\ \E essential \in ESSENTIAL_GIT_DIRS : StartsWith(rel_name, essential)

\* add, lines 103-105: .git, except below the essential git directories
GitExcluded(file_name, rel_name) ==
  /\ file_name = <<".","g","i","t">>
  /\ ~\E essential \in ESSENTIAL_GIT_DIRS : StartsWith(rel_name, essential)

\* add, line 111
ChangeLogged(name) == Contains(name, <<"C","h","a","n","g","e","L","o","g">>)

\* keep_file without the '.gyp' marker
KeepFileWithoutGyp(file_name, rel_name) ==
  \/ Contains(file_name, <<".","g","n">>)
  \/ Contains(file_name, <<".","i","s","o","l","a","t","e">>)
  \/ Contains(file_name, <<".","g","r","d">>)
  \/ EndsWith(file_name, <<".","p","y","d","e","p","s">>)
  \/ rel_name \in ESSENTIAL_FILES

\* add, lines 120-122
keep_file(file_name, rel_name) ==
  \/ Contains(file_name, <<".","g","y","p">>)
  \/ Contains(file_name, <<".","g","n">>)
  \/ Contains(file_name, <<".","i","s","o","l","a","t","e">>)
  \/ Contains(file_name, <<".","g","r","d">>)
  \/ EndsWith(file_name, <<".","p","y","d","e","p","s">>)
  \/ rel_name \in ESSENTIAL_FILES

\* InNonessential without the os.path.isfile test
InNonessentialAnyType(name, rel_name) ==
  \E nonessential_dir \in nonessential_dirs \cup {TEST_DIRS[i] : i \in DOMAIN TEST_DIRS} :
    StartsWith(rel_name, nonessential_dir)

\* add, lines 125-128: the loop returns as soon as one directory matches, so
\* the order the set is iterated in does not show in its outcome
InNonessential(name, rel_name) ==
  \E nonessential_dir \in nonessential_dirs \cup {TEST_DIRS[i] : i \in DOMAIN TEST_DIRS} :
    StartsWith(rel_name, nonessential_dir) /\ isfile(name)

\* add, lines 87-128: whether add returns through __report_skipped
Skipped(name, src_dir, remove_nonessential_files) ==
  LET rel_name == relpath(name, src_dir)
      file_path == SplitHead(name)
      file_name == SplitTail(name)
  IN \/ DanglingLink(name)
     \/ CacheMarker(file_name)
     \/ SvnOrOut(file_name, file_path)
     \/ GitExcluded(file_name, rel_name)
     \/ /\ remove_nonessential_files
        /\ \/ ChangeLogged(name)
           \/ ~keep_file(file_name, rel_name) /\ InNonessential(name, rel_name)

\* TarFile.gettarinfo(name, arcname): os.lstat, so a symlink is a symlink member
gettarinfo(name, arcname, st) ==
  [path |-> name, name |-> arcname, type |-> fs[name].kind, mode |-> fs[name].mode,
   mtime |-> st.mtime, uid |-> st.uid, gid |-> st.gid,
   uname |-> st.uname, gname |-> st.gname]

\* __filter without the owner-write bit
FilterKeepsMode(tar_info, archive_mtime) ==
  [tar_info EXCEPT !.mtime = archive_mtime,
                   !.uid = 0,
                   !.gid = 0,
                   !.uname = "0",
                   !.gname = "0"]

\* __filter that leaves the owner and group of the checkout in the member
FilterKeepsOwner(tar_info, archive_mtime) ==
  [tar_info EXCEPT !.mtime = archive_mtime,
                   !.mode = BitOr(@, S_IWUSR)]

\* __filter
filter(tar_info, archive_mtime) ==
  [tar_info EXCEPT !.mtime = archive_mtime,
                   !.mode = BitOr(@, S_IWUSR),
                   !.uid = 0,
                   !.gid = 0,
                   !.uname = "0",
                   !.gname = "0"]

\* a line on standard output
Line(text, arg) == [text |-> text, arg |-> arg]

\* __report_skipped / __report_added
Report(name, letter) ==
  /\ report' = Append(report, [name |-> name, decision |-> letter])
  /\ stdout' = IF options.verbose THEN Append(stdout, Line(letter, name)) ELSE stdout

\* an exception leaves the walk for the finally clause of main
Raise(e) ==
  /\ exc' = e
  /\ pc' = "raised"
  /\ stack' = <<>>
  /\ UNCHANGED records

\* tarfile.TarFile.add(name, arcname, filter=self.__filter), reached from line
\* 130: one member for the entry, then add on each child in sorted order
TarFileAdd(name, arcname) ==
  \E st \in Stats :
    LET tarinfo == filter(gettarinfo(name, arcname, st), mtime) IN
    \/ /\ tarinfo.type = "file"      \* open(name, "rb") fails
       /\ Raise("OSError")
    \/ /\ xz = "dead"                \* the write reaches the pipe, not a buffer
       /\ Raise("BrokenPipeError")
    \/ /\ records' = Append(records, tarinfo)
       /\ IF tarinfo.type = "dir"
          THEN \E listing \in Listings(listdir(name)) :
                 LET fnames == sorted(listing)
                 IN stack' = [i \in 1..Len(fnames) |->
                                [name |-> join(name, fnames[i]),
                                 arcname |-> join(arcname, fnames[i])]]
                              \o Tail(stack)
          ELSE stack' = Tail(stack)
       /\ UNCHANGED <<pc, exc>>

\* MyTarFile.add, one call
AddStep ==
  /\ pc = "walk"
  /\ stack # <<>>
  /\ LET name == Head(stack).name
         arcname == Head(stack).arcname
     IN IF Skipped(name, options.src_dir, options.remove_nonessential_files)
        THEN /\ Report(name, "D")
             /\ stack' = Tail(stack)
             /\ UNCHANGED <<records, pc, exc>>
        ELSE /\ Report(name, "A")
             /\ TarFileAdd(name, arcname)
  /\ UNCHANGED <<fs, run, prev, options, mtime, tsReads, dirIdx, tarball, xz,
                 archive, pipe, xzStatus, exitCode>>

(* -------------------------------- main --------------------------------- *)

\* main, line 155
output_basename ==
  IF options.basename # <<>> THEN options.basename ELSE SplitTail(options.arg0)

\* main returns 1 after printing its message (lines 144-153)
ReturnUsage(lines) ==
  /\ stdout' = stdout \o lines
  /\ exitCode' = 1
  /\ pc' = "exit"
  /\ UNCHANGED options

\* main, lines 132-153: the command line is parsed and validated; a later
\* invocation is given the command line of the first
ParseArgs ==
  /\ pc = "main"
  /\ IF options # <<>>
     THEN /\ pc' = "open"
          /\ UNCHANGED <<options, stdout, exitCode>>
     ELSE \E nargs \in 0..2, version \in BOOLEAN, remove \in BOOLEAN, test \in BOOLEAN,
             verbose \in BOOLEAN, basename \in BasenameOpts, src_dir \in {SrcDir, NoSrcDir} :
            IF nargs # 1
            THEN ReturnUsage(<<Line("You must provide only one argument: output file name", <<>>),
                               Line("(without .tar.xz extension).", <<>>)>>)
            ELSE IF ~version
            THEN ReturnUsage(<<Line("A version number must be provided via the --version option.", <<>>)>>)
            ELSE IF ~exists(src_dir)
            THEN ReturnUsage(<<Line("Cannot find the src directory ", src_dir)>>)
            ELSE /\ options' = [remove_nonessential_files |-> remove, test_data |-> test,
                                verbose |-> verbose, basename |-> basename,
                                src_dir |-> src_dir, arg0 |-> Arg0]
                 /\ pc' = "open"
                 /\ UNCHANGED <<stdout, exitCode>>
  /\ UNCHANGED <<fs, run, prev, mtime, tsReads, stack, dirIdx, records, report,
                 tarball, xz, archive, pipe, xzStatus, exc>>

\* main, lines 154-164: the output file is created, the compressor started and
\* the archive opened on its standard input
OpenOutput ==
  /\ pc = "open"
  /\ tarball' = "open"
  /\ xz' = "running"
  /\ pipe' = "open"
  /\ archive' = "open"
  /\ pc' = "readts"
  /\ UNCHANGED <<fs, run, prev, options, mtime, tsReads, stack, dirIdx, records,
                 report, stdout, xzStatus, exc, exitCode>>

\* str.strip of the white space around an integer literal
RECURSIVE Strip(_)
Strip(s) ==
  IF s # <<>> /\ Head(s) \in {" ", "\n", "\t"} THEN Strip(Tail(s))
  ELSE IF s # <<>> /\ s[Len(s)] \in {" ", "\n", "\t"} THEN Strip(SubSeq(s, 1, Len(s) - 1))
  ELSE s

Digits == <<"0","1","2","3","4","5","6","7","8","9">>

\* whether int(s) returns (s holds unsigned decimal digits only)
IsInt(s) ==
  Strip(s) # <<>> /\ \A i \in 1..Len(Strip(s)) : \E d \in 1..10 : Strip(s)[i] = Digits[d]

\* int(s) for such an s
RECURSIVE IntOf(_)
IntOf(s) ==
  LET t == Strip(s) IN
  IF t = <<>> THEN 0
  ELSE 10 * IntOf(SubSeq(t, 1, Len(t) - 1))
       + (CHOOSE d \in 1..10 : Digits[d] = t[Len(t)]) - 1

\* an exception nothing catches ends the process with status 1
Uncaught(e) ==
  /\ exc' = e
  /\ exitCode' = 1
  /\ pc' = "exit"

\* main, lines 165-167 and the test of line 169
ReadTimestamp ==
  /\ pc = "readts"
  /\ LET f == join(options.src_dir, TimestampFile) IN
     IF ~isfile(f)
     THEN /\ Uncaught("OSError")
          /\ UNCHANGED <<mtime, tsReads, stack, dirIdx>>
     ELSE /\ tsReads' = tsReads + 1
          /\ IF ~IsInt(fs[f].content)
             THEN /\ Uncaught("ValueError")
                  /\ UNCHANGED <<mtime, stack, dirIdx>>
             ELSE /\ mtime' = IntOf(fs[f].content)
                  /\ pc' = "walk"
                  /\ dirIdx' = 1
                  /\ stack' = IF options.test_data THEN <<>>
                              ELSE <<[name |-> options.src_dir, arcname |-> output_basename]>>
                  /\ UNCHANGED <<exc, exitCode>>
  /\ UNCHANGED <<fs, run, prev, options, records, report, stdout, tarball, xz,
                 archive, pipe, xzStatus>>

\* TestArcname without the base name
TestArcnameNoBase(basename, directory) == directory

\* main, line 178: where a test directory goes in the archive
TestArcname(basename, directory) == join(basename, directory)

\* main, lines 170-178: one iteration of the loop over TEST_DIRS
TestDirStep ==
  /\ pc = "walk"
  /\ options.test_data
  /\ stack = <<>>
  /\ dirIdx <= Len(TEST_DIRS)
  /\ LET directory == TEST_DIRS[dirIdx]
         test_dir == join(options.src_dir, directory)
     IN IF ~isdir(test_dir)
        THEN /\ stdout' = Append(stdout, Line("\"%s\" not present; skipping.", test_dir))
             /\ UNCHANGED stack
        ELSE /\ stack' = <<[name |-> test_dir,
                            arcname |-> TestArcname(output_basename, directory)]>>
             /\ UNCHANGED stdout
  /\ dirIdx' = dirIdx + 1
  /\ UNCHANGED <<fs, run, prev, pc, options, mtime, tsReads, records, report,
                 tarball, xz, archive, pipe, xzStatus, exc, exitCode>>

\* the try block of lines 168-180 has run to its end
WalkFinished ==
  /\ pc = "walk"
  /\ stack = <<>>
  /\ options.test_data => dirIdx > Len(TEST_DIRS)

\* main, lines 181-182: archive.close() in the finally clause; the end-of-archive
\* blocks go to the pipe, and an exception of the try block goes on afterwards
ArchiveClose ==
  /\ pc = "raised" \/ WalkFinished
  /\ archive' = "closed"
  /\ \E broken \in {b \in BOOLEAN : b => xz = "dead"} :
       IF broken THEN Uncaught("BrokenPipeError")
       ELSE IF exc # "none" THEN Uncaught(exc)
       ELSE pc' = "closepipe" /\ UNCHANGED <<exc, exitCode>>
  /\ UNCHANGED <<fs, run, prev, options, mtime, tsReads, stack, dirIdx, records,
                 report, stdout, tarball, xz, pipe, xzStatus>>

\* main, line 183: xz.stdin.close() flushes what is buffered and closes the pipe
ClosePipe ==
  /\ pc = "closepipe"
  /\ pipe' = "closed"
  /\ \E broken \in {b \in BOOLEAN : b => xz = "dead"} :
       IF broken THEN Uncaught("BrokenPipeError")
       ELSE pc' = "wait" /\ UNCHANGED <<exc, exitCode>>
  /\ UNCHANGED <<fs, run, prev, options, mtime, tsReads, stack, dirIdx, records,
                 report, stdout, tarball, xz, archive, xzStatus>>

\* main, lines 184-186: xz.wait() and the test of its status
Wait ==
  /\ pc = "wait"
  /\ \E status \in {s \in XzStatuses : xz = "dead" => s # 0} :
       /\ xzStatus' = status
       /\ IF status # 0
          THEN /\ stdout' = Append(stdout, Line("xz -9 failed!", <<>>))
               /\ exitCode' = 1
               /\ pc' = "exit"
          ELSE /\ pc' = "flush"
               /\ UNCHANGED <<stdout, exitCode>>
  /\ UNCHANGED <<fs, run, prev, options, mtime, tsReads, stack, dirIdx, records,
                 report, tarball, xz, archive, pipe, exc>>

\* main, lines 187-189
FlushClose ==
  /\ pc = "flush"
  /\ tarball' = "closed"
  /\ exitCode' = 0
  /\ pc' = "exit"
  /\ UNCHANGED <<fs, run, prev, options, mtime, tsReads, stack, dirIdx, records,
                 report, stdout, xz, archive, pipe, xzStatus, exc>>

\* the compressor, a process of its own, fails while its input is still open
XzDies ==
  /\ xz = "running"
  /\ pipe = "open"
  /\ pc # "exit"
  /\ xz' = "dead"
  /\ UNCHANGED <<fs, run, prev, pc, options, mtime, tsReads, stack, dirIdx, records,
                 report, stdout, tarball, archive, pipe, xzStatus, exc, exitCode>>

\* the tool is invoked again with the same command line over the same tree
\* (sys.exit(main(sys.argv[1:])), line 191, in a new process)
Rerun ==
  /\ pc = "exit"
  /\ exitCode = 0
  /\ run < MaxRuns
  /\ run' = run + 1
  /\ prev' = [records |-> records, report |-> report]
  /\ pc' = "main"
  /\ mtime' = -1
  /\ tsReads' = 0
  /\ stack' = <<>>
  /\ dirIdx' = 1
  /\ records' = <<>>
  /\ report' = <<>>
  /\ stdout' = <<>>
  /\ tarball' = "absent"
  /\ xz' = "none"
  /\ archive' = "none"
  /\ pipe' = "none"
  /\ xzStatus' = -1
  /\ exc' = "none"
  /\ exitCode' = -1
  /\ UNCHANGED <<fs, options>>

Next ==
  \/ ParseArgs
  \/ OpenOutput
  \/ ReadTimestamp
  \/ TestDirStep
  \/ AddStep
  \/ ArchiveClose
  \/ ClosePipe
  \/ Wait
  \/ FlushClose
  \/ XzDies
  \/ Rerun


Spec == Init /\ [][Next]_vars

(* ------------------------------ properties ----------------------------- *)

\* --remove-nonessential-files was given
Trimmed == options # <<>> /\ options.remove_nonessential_files

\* --test-data was given
TestData == options # <<>> /\ options.test_data

\* the path of an entry relative to the source root
RelOf(name) == relpath(name, options.src_dir)

\* a member was written for the entry
Emitted(name) == \E i \in DOMAIN records : records[i].path = name

\* the line was printed
Printed(line) == \E i \in DOMAIN stdout : stdout[i] = line

\* p is s, or s begins with p
IsPrefix(p, s) == Len(p) <= Len(s) /\ \A i \in DOMAIN p : p[i] = s[i]

\* the base name carries an always-keep marker, or the relative path is an
\* essential file
Essential(name) ==
  LET base == SplitTail(name) IN
  \/ \E marker \in {<<".","g","y","p">>, <<".","g","n">>, <<".","i","s","o","l","a","t","e">>, <<".","g","r","d">>} : Contains(base, marker)
  \/ EndsWith(base, <<".","p","y","d","e","p","s">>)
  \/ RelOf(name) \in {<<"c","h","r","o","m","e","/","t","e","s","t","/","d","a","t","a","/","w","e","b","u","i","/","i","1","8","n","_","p","r","o","c","e","s","s","_","c","s","s","_","t","e","s","t",".","h","t","m","l">>,
                      <<"c","h","r","o","m","e","/","t","e","s","t","/","d","a","t","a","/","w","e","b","u","i","/","m","o","j","o","/","f","o","o","b","a","r",".","m","o","j","o","m">>,
                      <<"c","h","r","o","m","e","/","t","e","s","t","/","d","a","t","a","/","w","e","b","u","i","/","w","e","b","_","u","i","_","t","e","s","t",".","m","o","j","o","m">>,
                      <<"v","8","/","t","e","s","t","/","t","o","r","q","u","e","/","t","e","s","t","-","t","o","r","q","u","e",".","t","q">>}

\* the relative path starts with a prefix of nonessential_dirs or TEST_DIRS
UnderTrimmedPrefix(name) ==
  \E p \in nonessential_dirs \cup {TEST_DIRS[i] : i \in DOMAIN TEST_DIRS} :
    StartsWith(RelOf(name), p)

\* a symlink whose target does not exist
IsDangling(name) == fs[name].kind = "symlink" /\ fs[name].target = "none"

\* a .git entry outside third_party/rust-src/
IsStrayGit(name) ==
  SplitTail(name) = <<".","g","i","t">> /\ ~StartsWith(RelOf(name), <<"t","h","i","r","d","_","p","a","r","t","y","/","r","u","s","t","-","s","r","c","/">>)

\* one of the rules that come before the keep markers excludes the entry: a
\* dangling symlink, a byte-code cache, .svn or out outside node_modules, a
\* .git outside third_party/rust-src/, or 'ChangeLog' in the name
EarlierRule(name) ==
  LET base == SplitTail(name) IN
  \/ IsDangling(name)
  \/ base = <<"_","_","p","y","c","a","c","h","e","_","_">> \/ EndsWith(base, <<".","p","y","c">>)
  \/ base \in {<<".","s","v","n">>, <<"o","u","t">>} /\ ~Contains(SplitHead(name), <<"n","o","d","e","_","m","o","d","u","l","e","s">>)
  \/ IsStrayGit(name)
  \/ Contains(name, <<"C","h","a","n","g","e","L","o","g">>)

\* C1, as claimed: in a trimmed run every entry add is called on that carries an
\* always-keep marker or is an essential file is reported added and gets a
\* member of the archive.
C1_EssentialAlwaysKept ==
  \A i \in DOMAIN report :
    (Trimmed /\ Essential(report[i].name)) =>
      /\ report[i].decision = "A"
      /\ exc = "none" => Emitted(report[i].name)

\* C1, amended: in a trimmed run every entry add is called on that carries an
\* always-keep marker or is an essential file, and that none of the earlier
\* rules excludes, is reported added and, unless writing it raises, gets a
\* member of the archive.
C1_EssentialKeptUnlessEarlierRule ==
  \A i \in DOMAIN report :
    (Trimmed /\ Essential(report[i].name) /\ ~EarlierRule(report[i].name)) =>
      /\ report[i].decision = "A"
      /\ exc = "none" => Emitted(report[i].name)

\* C1, witness: a regular file with a keep marker below a trimmed prefix is in
\* the archive of a trimmed run.
C1_Witness ==
  \E i \in DOMAIN report :
    /\ Trimmed
    /\ Essential(report[i].name)
    /\ UnderTrimmedPrefix(report[i].name)
    /\ fs[report[i].name].kind = "file"
    /\ report[i].decision = "A"
    /\ Emitted(report[i].name)

WriteBitForced(orig, mode) ==
  mode = (IF (orig \div 128) % 2 = 1 THEN orig ELSE orig + 128)

\* C3: every member written has the build timestamp, owner and group 0 and
\* "0", and the entry's mode with the owner-write bit set; the timestamp file
\* is read once, before add is called on any entry.
C3_MetadataNormalized ==
  /\ tsReads <= 1
  /\ (stack # <<>> \/ report # <<>> \/ records # <<>>) =>
       /\ tsReads = 1
       /\ mtime = IntOf(fs[join(options.src_dir, TimestampFile)].content)
  /\ \A i \in DOMAIN records :
       /\ records[i].mtime = mtime
       /\ records[i].uid = 0
       /\ records[i].gid = 0
       /\ records[i].uname = "0"
       /\ records[i].gname = "0"
       /\ WriteBitForced(fs[records[i].path].mode, records[i].mode)

\* C3, witness: in test-data mode a file below the walk root that is executable
\* and not writable (r-xr-xr-x) is written as rwxr-xr-x.
C3_Witness ==
  \E i \in DOMAIN records :
    /\ TestData
    /\ i > 1
    /\ fs[records[i].path].mode = 365
    /\ records[i].mode = 493
    /\ records[i].mtime = 17

\* C4: a member written is the same whatever os.lstat reports as the entry's
\* mtime, owner and group; and a later invocation with the same command line
\* over the same tree writes the members and reports the decisions the one
\* before it did, in the same order, as far as it gets, and all of them when
\* it succeeds.
C4_Reproducible ==
  /\ \A i \in DOMAIN records :
       \A st \in Stats :
         records[i] = filter(gettarinfo(records[i].path, records[i].name, st), mtime)
  /\ run > 1 =>
       /\ IsPrefix(records, prev.records)
       /\ IsPrefix(report, prev.report)
       /\ (pc = "exit" /\ exitCode = 0) =>
            records = prev.records /\ report = prev.report

\* C4, witness: a second trimmed run has succeeded, with entries skipped and
\* members written.
C4_Witness ==
  /\ run > 1
  /\ pc = "exit"
  /\ exitCode = 0
  /\ Trimmed
  /\ Len(records) >= 5
  /\ \E i \in DOMAIN report : report[i].decision = "D"

C6_DanglingExcluded ==
  /\ \A i \in DOMAIN report :
       IsDangling(report[i].name) => report[i].decision = "D"
  /\ \A i \in DOMAIN records : ~IsDangling(records[i].path)
  /\ pc = "raised" => ~IsDangling(report[Len(report)].name)

\* C6, witness: a trimmed run has succeeded that met a dangling symlink with a
\* keep marker and went on to a later entry.
C6_Witness ==
  /\ pc = "exit"
  /\ exitCode = 0
  /\ Trimmed
  /\ \E i \in DOMAIN report :
       /\ IsDangling(report[i].name)
       /\ Essential(report[i].name)
       /\ report[i].decision = "D"
       /\ i < Len(report)

\* C7, as claimed: when main exits after it opened the output file and started
\* the compressor, the archive and the pipe are closed, the compressor's status
\* has been collected and the output file is closed.
C7_AllReleasedOnExit ==
  (pc = "exit" /\ tarball # "absent") =>
    /\ archive = "closed"
    /\ pipe = "closed"
    /\ xzStatus # -1
    /\ tarball = "closed"

\* the run ended on a usage error, a missing source directory or a timestamp
\* file that cannot be read as an integer
UsageOrEnvironmentError ==
  /\ pc = "exit"
  /\ \/ options = <<>>
     \/ mtime = -1 /\ exc \in {"OSError", "ValueError"}

\* C8, as claimed: a usage or environment error ends the run with status 1
\* before add is called on any entry, before the output file is created and
\* before the compressor is started.
C8_ErrorsBeforeOutput ==
  UsageOrEnvironmentError =>
    /\ exitCode = 1
    /\ report = <<>>
    /\ records = <<>>
    /\ tarball = "absent"
    /\ xz = "none"

\* C9, as claimed: when the compressor fails and nothing else does, main exits
\* with status 1 having printed 'xz -9 failed!', and the status was collected
\* with the archive and the pipe closed.
C9_CompressorFailureReported ==
  (pc = "exit" /\ (xz = "dead" \/ xzStatus > 0) /\ exc \in {"none", "BrokenPipeError"}) =>
    /\ exitCode = 1
    /\ Printed(Line("xz -9 failed!", <<>>))
    /\ xzStatus # -1 => archive = "closed" /\ pipe = "closed"

\* the test directory a name lies in, 0 when in none
TestDirOf(name) ==
  LET in == {i \in DOMAIN TEST_DIRS :
               LET d == join(options.src_dir, TEST_DIRS[i])
               IN name = d \/ StartsWith(name, d \o <<"/">>)}
  IN IF in = {} THEN 0 ELSE CHOOSE i \in in : TRUE

\* add reaches the entry: neither it nor a directory between it and its test
\* directory is skipped
Reached(name) ==
  \A a \in Ancestors(name) \cup {name} :
    TestDirOf(a) # 0 =>
      ~Skipped(a, options.src_dir, options.remove_nonessential_files)

\* C10: in test-data mode a skip line is printed for exactly the test
\* directories that are missing; every member written lies in an existing test
\* directory and is named <basename>/<path below the source root>; the members
\* come in the order of TEST_DIRS; the run exits 0 when nothing raised and
\* the compressor returned 0, never 1 for a missing directory, and has then
\* written every entry add reaches.
C10_TestDataMode ==
  TestData =>
    /\ \A i \in 1..(dirIdx - 1) :
         LET d == join(options.src_dir, TEST_DIRS[i])
         IN Printed(Line("\"%s\" not present; skipping.", d)) <=> ~(d \in DOMAIN fs)
    /\ \A i \in DOMAIN records :
         /\ TestDirOf(records[i].path) \in 1..(dirIdx - 1)
         /\ records[i].name = <<"c","/">> \o RelOf(records[i].path)
    /\ \A i, j \in DOMAIN records :
         i < j => TestDirOf(records[i].path) <= TestDirOf(records[j].path)
    /\ (pc = "exit" /\ exitCode = 1) => (exc # "none" \/ xzStatus > 0)
    /\ (pc = "exit" /\ exc = "none" /\ xzStatus = 0) =>
         /\ exitCode = 0
         /\ dirIdx = Len(TEST_DIRS) + 1
         /\ \A n \in DOMAIN fs : (TestDirOf(n) # 0 /\ Reached(n)) => Emitted(n)

\* C10, witness: a test-data run has succeeded that skipped a missing test
\* directory and wrote members from two test directories.
C10_Witness ==
  /\ TestData
  /\ pc = "exit"
  /\ exitCode = 0
  /\ \E i \in DOMAIN stdout : stdout[i].text = "\"%s\" not present; skipping."
  /\ \E i, j \in DOMAIN records :
       /\ TestDirOf(records[i].path) = 1
       /\ TestDirOf(records[j].path) = 2
       /\ fs[records[j].path].kind = "file"
====
